---- MODULE Spec2Model ----
(***************************************************************************)
(* Model of generate_interactive_report.py: main() checks the columns of   *)
(* the loaded table, generate_html_report() creates the output tree,       *)
(* analyses every category with analyze_category_data() and writes         *)
(* index.html; the emitted script.js then reacts to card and back clicks.  *)
(*                                                                         *)
(* A table is a sequence of rows; a row is a function from the columns of  *)
(* the table to values.  A missing value (pandas NaN) is the value NaN.    *)
(* Ratings are populated in every row (spec section 3).  A mean is kept    *)
(* as the exact fraction [num, den]; two means of integer ratings are the  *)
(* same float exactly when the fractions are equal.                        *)
(***************************************************************************)
EXTENDS Integers, Sequences, FiniteSets, TLC

-----------------------------------------------------------------------------
(* Values and pandas primitives *)

NaN == "NaN"

isna(v) == v = NaN

\* pandas elementwise ==: a missing value equals nothing, itself included
Eq(a, b) == ~isna(a) /\ ~isna(b) /\ a = b

Min(a, b) == IF a <= b THEN a ELSE b

Front(s) == SubSeq(s, 1, Len(s) - 1)

Last(s) == s[Len(s)]

Range(s) == {s[i] : i \in DOMAIN s}

\* Series.dropna().tolist()
dropna(s) == SelectSeq(s, LAMBDA v : ~isna(v))

\* list[:k] and DataFrame.head(k)
head(s, k) == SubSeq(s, 1, Min(k, Len(s)))

\* df[col] as a list
Column(t, col) == [i \in DOMAIN t |-> t[i][col]]

RECURSIVE unique(_)
\* Series.unique(): distinct values in order of first appearance, NaN kept
unique(s) ==
    IF s = <<>> THEN <<>>
    ELSE LET u == unique(Front(s))
         IN  IF Last(s) \in Range(u) THEN u ELSE Append(u, Last(s))

RECURSIVE SumSeq(_)
SumSeq(s) == IF s = <<>> THEN 0 ELSE SumSeq(Front(s)) + Last(s)

\* Series.mean() of populated integer ratings, as an exact fraction
mean(s) == [num |-> SumSeq(s), den |-> Len(s)]

MeanLess(a, b) == a.num * b.den < b.num * a.den

MeanEq(a, b) == a.num * b.den = b.num * a.den

\* Series.value_counts() of a series without missing values: rows per
\* distinct value
value_counts(s) ==
    [v \in Range(s) |-> Cardinality({i \in DOMAIN s : s[i] = v})]

RECURSIVE SortedKeys(_)
SortedKeys(S) ==
    IF S = {} THEN <<>>
    ELSE LET m == CHOOSE x \in S : \A y \in S : x <= y
         IN  <<m>> \o SortedKeys(S \ {m})

\* Series.sort_index(): the entries as <<key, count>> pairs, keys ascending
sort_index(f) ==
    LET ks == SortedKeys(DOMAIN f)
    IN  [i \in DOMAIN ks |-> <<ks[i], f[ks[i]]>>]

-----------------------------------------------------------------------------
(* Program constants *)

required_columns ==
    <<"name", "product_category", "reviews.rating", "rating_sentiment",
      "chatgpt_summary">>

DEFAULT_CATEGORY_IMAGES ==
    [c \in {"Accessories", "Tablets & Entertainment", "Smart Home & Speakers",
            "E-readers"} |->
        CASE c = "Accessories" ->
               "https://images-na.ssl-images-amazon.com/images/G/01/AmazonBasics/landing/electronics._CB485921693_.jpg"
          [] c = "Tablets & Entertainment" ->
               "https://images-na.ssl-images-amazon.com/images/G/01/kindle/journeys/YTNiNWIyZTgt/YTNiNWIyZTgt-ZjZmMzY2Yjct-w1500._CB417267304_.jpg"
          [] c = "Smart Home & Speakers" ->
               "https://images-na.ssl-images-amazon.com/images/G/01/kindle/journeys/Nzg3NzIxZDct/Nzg3NzIxZDct-YzA3MzI3Yjgt-w1500._CB418667506_.jpg"
          [] c = "E-readers" ->
               "https://images-na.ssl-images-amazon.com/images/G/01/kindle/journeys/Yzg5NWM0MDQt/Yzg5NWM0MDQt-YTJmMDQzMWIt-w1500._CB418667506_.jpg"]

\* head(3) of the ranking
TopN == 3

\* [:5] of the excerpt lists
MaxSummaries == 5

output_dir == "report"

assets_dir == "report/assets"

css_dir == "report/assets/css"

js_dir == "report/assets/js"

img_dir == "report/assets/img"

style_css == "report/assets/css/style.css"

script_js == "report/assets/js/script.js"

index_html == "report/index.html"

None == [none |-> TRUE]

-----------------------------------------------------------------------------
(* analyze_category_data *)

\* the filter with a missing category matching a missing category
category_rows_nan_equal(t, category) ==
    SelectSeq(t, LAMBDA row : row["product_category"] = category)

\* df[df['product_category'] == category].copy()
category_rows(t, category) ==
    SelectSeq(t, LAMBDA row : Eq(row["product_category"], category))

\* category_df[category_df['name'] == product_name]
product_rows(cdf, product_name) ==
    SelectSeq(cdf, LAMBDA row : Eq(row["name"], product_name))

\* The order in which groupby('name') lists its keys: sorted by name
NameOrder == <<"A", "B", "C", "D", "E">>

\* category_df.groupby('name')['reviews.rating'].mean().reset_index():
\* one entry per non-missing name, in key order
groupby_mean(cdf) ==
    LET present == Range(dropna(Column(cdf, "name")))
        keys == SelectSeq(NameOrder, LAMBDA n : n \in present)
    IN  [i \in DOMAIN keys |->
            [name |-> keys[i],
             rating |-> mean(Column(product_rows(cdf, keys[i]), "reviews.rating"))]]

RECURSIVE Arrangements(_)
\* every order in which the positions S can be listed
Arrangements(S) ==
    IF S = {} THEN {<<>>}
    ELSE UNION { {<<x>> \o a : a \in Arrangements(S \ {x})} : x \in S }

\* entry a sorts strictly before entry b in the given direction
Before(a, b, ascending) ==
    IF ascending THEN MeanLess(a.rating, b.rating)
                 ELSE MeanLess(b.rating, a.rating)

\* the arrangements of pr in which no entry precedes one that sorts
\* strictly before it
Ordered(pr, ascending) ==
    { [i \in DOMAIN pr |-> pr[p[i]]] :
        p \in { q \in Arrangements(DOMAIN pr) :
                  \A i \in DOMAIN pr : \A j \in DOMAIN pr :
                      i < j => ~Before(pr[q[j]], pr[q[i]], ascending) } }

\* sort_values with the requested direction ignored: always ascending
sort_values_always_ascending(pr, ascending) == Ordered(pr, TRUE)

\* sort_values with the requested direction ignored: always descending
sort_values_always_descending(pr, ascending) == Ordered(pr, FALSE)

\* product_ratings.sort_values('reviews.rating', ascending=...): the sort is
\* pandas' default kind='quicksort', which is not stable, so every
\* arrangement that is ordered by the key is a possible outcome.
sort_values(pr, ascending) == Ordered(pr, ascending)

\* summaries with the sentiment label not looked at
summaries_any_label(cdf, product_name, sentiment) ==
    LET product_reviews == product_rows(cdf, product_name)
    IN  IF Len(product_reviews) > 0
        THEN head(dropna(Column(product_reviews, "chatgpt_summary")), MaxSummaries)
        ELSE <<>>

\* the excerpt list of one product for one sentiment label
summaries(cdf, product_name, sentiment) ==
    LET product_reviews == product_rows(cdf, product_name)
        labelled == SelectSeq(product_reviews,
                        LAMBDA row : Eq(row["rating_sentiment"], sentiment))
    IN  IF Len(labelled) > 0
        THEN head(dropna(Column(labelled, "chatgpt_summary")), MaxSummaries)
        ELSE <<>>

\* the top entries with the products of lowest mean taken out, as a
\* selection deduplicated against the worst product would leave them
top_products_data_deduplicated(cdf, top_products) ==
    LET kept == SelectSeq(top_products,
                    LAMBDA e : \E o \in Range(groupby_mean(cdf)) :
                                  MeanLess(o.rating, e.rating))
    IN  [i \in DOMAIN kept |->
            [name |-> kept[i].name,
             rating |-> kept[i].rating,
             positive_summaries |-> summaries(cdf, kept[i].name, "Positive")]]

top_products_data(cdf, top_products) ==
    [i \in DOMAIN top_products |->
        [name |-> top_products[i].name,
         rating |-> top_products[i].rating,
         positive_summaries |-> summaries(cdf, top_products[i].name, "Positive")]]

worst_product_data(cdf, worst_product) ==
    IF worst_product # <<>>
    THEN [none |-> FALSE,
          name |-> worst_product[1].name,
          rating |-> worst_product[1].rating,
          improvement_summaries |->
              summaries(cdf, worst_product[1].name, "Negative")]
    ELSE None

\* value_counts(dropna=False): a missing label is counted as a label
sentiment_counts_keep_missing(cdf) ==
    value_counts(Column(cdf, "rating_sentiment"))

\* category_df['rating_sentiment'].value_counts(): dropna=True is the
\* default, rows with a missing label are not counted
sentiment_counts(cdf) ==
    value_counts(dropna(Column(cdf, "rating_sentiment")))

\* category_df['reviews.rating'].value_counts().sort_index()
rating_counts(cdf) == sort_index(value_counts(Column(cdf, "reviews.rating")))

image_url(category) ==
    IF category \in DOMAIN DEFAULT_CATEGORY_IMAGES
    THEN DEFAULT_CATEGORY_IMAGES[category] ELSE ""

\* the analysis filtering the caller's table in place
df_after_analysis_in_place(t, category) == category_rows(t, category)

\* The caller's table after analyze_category_data(df, category): the
\* function works on a copy of the filtered rows and assigns to nothing else
df_after_analysis(t, category) == t

\* The set of values analyze_category_data(df, category) can return; the
\* two charts are kept as the distributions they draw
analyze_category_data(t, category) ==
    LET category_df == category_rows(t, category)
        product_ratings == groupby_mean(category_df)
    IN  IF Len(category_df) = 0 THEN {None}
        ELSE { [none |-> FALSE,
                category |-> category,
                product_count |-> Len(unique(Column(category_df, "name"))),
                review_count |-> Len(category_df),
                avg_rating |-> mean(Column(category_df, "reviews.rating")),
                top_products |-> top_products_data(category_df, top_products),
                worst_product |-> worst_product_data(category_df, worst_product),
                sentiment_chart |-> sentiment_counts(category_df),
                rating_chart |-> rating_counts(category_df),
                image_url |-> image_url(category)] :
                  top_products \in
                      {head(s, TopN) : s \in sort_values(product_ratings, FALSE)},
                  worst_product \in
                      {head(s, 1) : s \in sort_values(product_ratings, TRUE)} }

-----------------------------------------------------------------------------
(* Input tables *)

MaxRows == 2

MaxRankRows == 5

ExcerptRows == 6

SummaryText == <<"s1", "s2", "s3", "s4", "s5", "s6", "s7", "s8">>

Row(n, c, r, s, t) ==
    ("name" :> n) @@ ("product_category" :> c) @@ ("reviews.rating" :> r)
        @@ ("rating_sentiment" :> s) @@ ("chatgpt_summary" :> t)

Kind(n, c, r, s, t) ==
    [name |-> n, cat |-> c, rating |-> r, sent |-> s, summary |-> t]

\* the table whose i-th row is of kind ks[i]; a present summary is the text
\* of its own row
MakeTable(ks) ==
    [i \in DOMAIN ks |->
        Row(ks[i].name, ks[i].cat, ks[i].rating, ks[i].sent,
            IF ks[i].summary THEN SummaryText[i] ELSE NaN)]

\* rating and sentiment label of a row; a label can be missing
Labelled == {<<5, "Positive">>, <<1, "Negative">>, <<3, NaN>>}

GeneralKinds ==
    { Kind(n, c, l[1], l[2], TRUE) :
        n \in {"A", "B"}, c \in {"Accessories", "Gadgets", NaN}, l \in Labelled }

\* every table of at most MaxRows rows, in every row order
GeneralTables ==
    UNION { {MakeTable(ks) : ks \in [1..k -> GeneralKinds]} : k \in 0..MaxRows }

RankKinds ==
    << Kind("A", "Accessories", 5, "Positive", TRUE),
       Kind("A", "Accessories", 4, "Positive", TRUE),
       Kind("B", "Accessories", 5, "Positive", TRUE),
       Kind("B", "Accessories", 4, "Positive", TRUE),
       Kind("C", "Accessories", 5, "Positive", TRUE),
       Kind("D", "Accessories", 4, "Neutral", TRUE),
       Kind(NaN, "Accessories", 5, "Positive", TRUE),
       Kind("A", "Gadgets", 1, "Negative", TRUE) >>

RECURSIVE NonDecreasing(_, _)
\* the sequences of length k over lo..Len(RankKinds) that never decrease
NonDecreasing(k, lo) ==
    IF k = 0 THEN {<<>>}
    ELSE UNION { {<<m>> \o s : s \in NonDecreasing(k - 1, m)} :
                    m \in lo..Len(RankKinds) }

\* up to four products in one category, one row list per multiset of rows
RankTables ==
    UNION { {MakeTable([i \in DOMAIN s |-> RankKinds[s[i]]]) :
                s \in NonDecreasing(k, 1)} : k \in 0..MaxRankRows }

ExcerptKinds ==
    { Kind("A", "Accessories", 5, "Positive", TRUE),
      Kind("A", "Accessories", 5, "Positive", FALSE),
      Kind("A", "Accessories", 1, "Negative", TRUE) }

\* one product with more matching rows than an excerpt list holds
ExcerptTables == {MakeTable(ks) : ks \in [1..ExcerptRows -> ExcerptKinds]}

Tables == GeneralTables \cup RankTables \cup ExcerptTables

\* the rows of a table that has only the columns cols
Project(t, cols) == [i \in DOMAIN t |-> [c \in cols |-> t[i][c]]]

ColumnSets == SUBSET Range(required_columns)

\* the tables tried with a column missing or the output directory in place
SmallTables == {t \in GeneralTables : Len(t) <= 1}

-----------------------------------------------------------------------------
(* State *)

VARIABLES
    df,              \* the rows of the loaded table
    columns,         \* df.columns
    pc,              \* position in main / generate_html_report
    missing_columns, \* main's missing_columns, once computed
    stdout,          \* what main printed: "error", "done" or nothing yet
    fs,              \* the paths that exist
    created,         \* the directories this run created
    written,         \* the files this run wrote
    categories,      \* df['product_category'].unique()
    next_category,   \* position of the for loop in categories
    data,            \* the value the last analyze_category_data call returned
    calls,           \* number of analyze_category_data calls so far
    category_data,   \* the reports collected for rendering
    cards,           \* the category cards of index.html
    details,         \* the detail sections of index.html
    loaded,          \* the page's DOMContentLoaded handler has run
    grid_display,    \* display of .category-grid
    detail_display,  \* display of each .category-detail, by position
    last_card        \* data-category of the card clicked last, 0 if none

vars ==
    <<df, columns, pc, missing_columns, stdout, fs, created, written,
      categories, next_category, data, calls, category_data, cards, details,
      loaded, grid_display, detail_display, last_card>>

program == <<pc, missing_columns, stdout, fs, created, written, categories,
             next_category, data, calls, category_data, cards, details>>

page == <<loaded, grid_display, detail_display, last_card>>

Init ==
    /\ \/ /\ columns = Range(required_columns)
          /\ df \in Tables
          /\ fs = {}
       \/ /\ columns = Range(required_columns)
          /\ df \in SmallTables
          /\ fs = {output_dir}
       \/ /\ columns \in ColumnSets \ {Range(required_columns)}
          /\ df \in {Project(t, columns) : t \in SmallTables}
          /\ fs \in {{}, {output_dir}}
    /\ pc = "main"
    /\ missing_columns = <<>>
    /\ stdout = <<>>
    /\ created = {}
    /\ written = {}
    /\ categories = <<>>
    /\ next_category = 1
    /\ data = None
    /\ calls = 0
    /\ category_data = <<>>
    /\ cards = <<>>
    /\ details = <<>>
    /\ loaded = FALSE
    /\ grid_display = "grid"
    /\ detail_display = <<>>
    /\ last_card = 0

-----------------------------------------------------------------------------
(* main and generate_html_report *)

\* [col for col in required_columns if col not in df.columns]
MissingColumns(cols) == SelectSeq(required_columns, LAMBDA col : col \notin cols)

\* main without the return after the error message
CheckColumns_no_return(missing) ==
    IF missing # <<>>
    THEN [pc |-> "create_output_directory", stdout |-> <<"error">>]
    ELSE [pc |-> "create_output_directory", stdout |-> <<>>]

\* main, up to the call of generate_html_report: with a column missing it
\* prints the error and returns
CheckColumns(missing) ==
    IF missing # <<>>
    THEN [pc |-> "done", stdout |-> <<"error">>]
    ELSE [pc |-> "create_output_directory", stdout |-> <<>>]

main ==
    /\ pc = "main"
    /\ missing_columns' = MissingColumns(columns)
    /\ pc' = CheckColumns(missing_columns').pc
    /\ stdout' = stdout \o CheckColumns(missing_columns').stdout
    /\ UNCHANGED <<df, columns, fs, created, written, categories, next_category,
                   data, calls, category_data, cards, details, page>>

create_output_directory ==
    /\ pc = "create_output_directory"
    /\ LET dirs == {output_dir, assets_dir, css_dir, js_dir, img_dir}
       IN  /\ created' = created \cup (dirs \ fs)
           /\ fs' = fs \cup dirs
    /\ pc' = "create_css_file"
    /\ UNCHANGED <<df, columns, missing_columns, stdout, written, categories,
                   next_category, data, calls, category_data, cards, details, page>>

create_css_file ==
    /\ pc = "create_css_file"
    /\ written' = written \cup {style_css}
    /\ fs' = fs \cup {style_css}
    /\ pc' = "create_js_file"
    /\ UNCHANGED <<df, columns, missing_columns, stdout, created, categories,
                   next_category, data, calls, category_data, cards, details, page>>

\* create_js_file, then categories = df['product_category'].unique()
create_js_file ==
    /\ pc = "create_js_file"
    /\ written' = written \cup {script_js}
    /\ fs' = fs \cup {script_js}
    /\ categories' = unique(Column(df, "product_category"))
    /\ next_category' = 1
    /\ pc' = "analyze"
    /\ UNCHANGED <<df, columns, missing_columns, stdout, created, data, calls,
                   category_data, cards, details, page>>

\* if data: category_data.append(data)
Collect(acc, d) == IF ~d.none THEN Append(acc, d) ELSE acc

\* one iteration of `for category in categories`
analyze_next ==
    /\ pc = "analyze"
    /\ next_category <= Len(categories)
    /\ data' \in analyze_category_data(df, categories[next_category])
    /\ calls' = calls + 1
    /\ category_data' = Collect(category_data, data')
    /\ next_category' = next_category + 1
    /\ df' = df_after_analysis(df, categories[next_category])
    /\ UNCHANGED <<columns, pc, missing_columns, stdout, fs, created, written,
                   categories, cards, details, page>>

\* {{ loop.index }}: jinja2 counts from 1
loop_index(i) == i

\* the cards the template's first loop emits
render_cards(cd) ==
    [i \in DOMAIN cd |->
        [data_category |-> loop_index(i),
         category |-> cd[i].category,
         product_count |-> cd[i].product_count,
         review_count |-> cd[i].review_count]]

\* the detail sections the template's second loop emits
render_details(cd) ==
    [i \in DOMAIN cd |->
        [id |-> loop_index(i), category |-> cd[i].category]]

\* the rest of generate_html_report and of main: render, write, print
write_index_html ==
    /\ pc = "analyze"
    /\ next_category > Len(categories)
    /\ cards' = render_cards(category_data)
    /\ details' = render_details(category_data)
    /\ written' = written \cup {index_html}
    /\ fs' = fs \cup {index_html}
    /\ stdout' = stdout \o <<"done">>
    /\ pc' = "done"
    /\ UNCHANGED <<df, columns, missing_columns, created, categories,
                   next_category, data, calls, category_data, page>>

-----------------------------------------------------------------------------
(* script.js in the browser *)

\* the page is opened: style.css gives the initial displays and the
\* DOMContentLoaded handler registers the click handlers
DOMContentLoaded ==
    /\ index_html \in written
    /\ script_js \in written
    /\ ~loaded
    /\ loaded' = TRUE
    /\ grid_display' = "grid"
    /\ detail_display' = [i \in DOMAIN details |-> "none"]
    /\ last_card' = 0
    /\ UNCHANGED <<df, columns, program>>

\* document.getElementById(`detail-${categoryId}`): positions of the
\* sections with that id
getElementById(ds, categoryId) == {j \in DOMAIN ds : ds[j].id = categoryId}

\* the displays after the click handler of a card ran: the grid is hidden
\* first; a missing section makes the handler throw after that
card_click(ds, displays, categoryId) ==
    [grid |-> "none",
     details |-> [j \in DOMAIN displays |->
                     IF j \in getElementById(ds, categoryId)
                     THEN "block" ELSE displays[j]]]

\* a click on card i; a card is inside .category-grid, so it can be
\* clicked only while the grid is displayed
CardClick(i) ==
    /\ loaded
    /\ grid_display # "none"
    /\ LET after == card_click(details, detail_display, cards[i].data_category)
       IN  /\ grid_display' = after.grid
           /\ detail_display' = after.details
    /\ last_card' = cards[i].data_category
    /\ UNCHANGED <<df, columns, program, loaded>>

\* a back handler that shows the grid and hides no section
back_click_keeps_details(displays) ==
    [grid |-> "grid", details |-> displays]

\* the displays after the click handler of a back button ran
back_click(displays) ==
    [grid |-> "grid", details |-> [j \in DOMAIN displays |-> "none"]]

\* a click on the back button of section j; the button is inside the
\* section, so it can be clicked only while the section is displayed
BackClick(j) ==
    /\ loaded
    /\ detail_display[j] # "none"
    /\ LET after == back_click(detail_display)
       IN  /\ grid_display' = after.grid
           /\ detail_display' = after.details
    /\ UNCHANGED <<df, columns, program, loaded, last_card>>

Next ==
    \/ main
    \/ create_output_directory
    \/ create_css_file
    \/ create_js_file
    \/ analyze_next
    \/ write_index_html
    \/ DOMContentLoaded
    \/ \E i \in DOMAIN cards : CardClick(i)
    \/ \E j \in DOMAIN details : BackClick(j)

Spec == Init /\ [][Next]_vars

\* The runs on tables in which every category has a row with a sentiment
\* label, so that every sentiment chart line 131 draws has a bar: what
\* pandas' bar plot does with an empty distribution is not relied on.
InitLabelled ==
    /\ Init
    /\ columns = Range(required_columns) =>
          \A i \in DOMAIN df :
              \/ isna(df[i]["product_category"])
              \/ \E j \in DOMAIN df :
                    /\ Eq(df[j]["product_category"], df[i]["product_category"])
                    /\ ~isna(df[j]["rating_sentiment"])

SpecLabelled == InitLabelled /\ [][Next]_vars

-----------------------------------------------------------------------------
(* What the claims speak of, read off the table itself *)

\* the reports handed to the renderer
Reports == {category_data[k] : k \in DOMAIN category_data}

\* positions of the rows whose category is C
RowsIn(C) == {i \in DOMAIN df : C # NaN /\ df[i]["product_category"] = C}

\* the product names that occur in category C
ProductsIn(C) == {df[i]["name"] : i \in RowsIn(C)} \ {NaN}

RowsOfProduct(C, P) == {i \in RowsIn(C) : df[i]["name"] = P}

RECURSIVE RatingSum(_)
RatingSum(S) ==
    IF S = {} THEN 0
    ELSE LET i == CHOOSE x \in S : TRUE
         IN  df[i]["reviews.rating"] + RatingSum(S \ {i})

\* mean rating of product P over the rows of category C only
MeanRating(C, P) ==
    [num |-> RatingSum(RowsOfProduct(C, P)),
     den |-> Cardinality(RowsOfProduct(C, P))]

TopNames(r) == {r.top_products[i].name : i \in DOMAIN r.top_products}

\* C1: top_products has min(3, number of products of C) entries, all
\* different products of C, each with its mean over the rows of C only, in
\* non-increasing order of mean, and no product left out has a strictly
\* higher mean than one that is listed.
C1_TopProducts ==
    \A r \in Reports :
        LET top == r.top_products
            C == r.category
        IN  /\ Len(top) = Min(3, Cardinality(ProductsIn(C)))
            /\ Cardinality(TopNames(r)) = Len(top)
            /\ \A i \in DOMAIN top :
                  /\ top[i].name \in ProductsIn(C)
                  /\ MeanEq(top[i].rating, MeanRating(C, top[i].name))
            /\ \A i \in DOMAIN top : \A j \in DOMAIN top :
                  i < j => ~MeanLess(top[i].rating, top[j].rating)
            /\ \A P \in ProductsIn(C) \ TopNames(r) : \A i \in DOMAIN top :
                  ~MeanLess(top[i].rating, MeanRating(C, P))

\* a category of four products, one left out with a lower mean, and a listed
\* product that also has a row in another category
C1_Witness ==
    \E r \in Reports :
        /\ Cardinality(ProductsIn(r.category)) > 3
        /\ Len(r.top_products) = 3
        /\ \E P \in ProductsIn(r.category) \ TopNames(r) :
              MeanLess(MeanRating(r.category, P), r.top_products[3].rating)
        /\ \E i \in DOMAIN r.top_products : \E k \in DOMAIN df :
              /\ df[k]["name"] = r.top_products[i].name
              /\ df[k]["product_category"] # r.category

\* C2: in a category with at least one product the worst product is present,
\* is a product of the category, carries its mean over the category, and
\* that mean is at most the mean of every product of the category and of
\* every entry of top_products.
C2_WorstProduct ==
    \A r \in Reports :
        ProductsIn(r.category) # {} =>
            /\ ~r.worst_product.none
            /\ r.worst_product.name \in ProductsIn(r.category)
            /\ MeanEq(r.worst_product.rating,
                      MeanRating(r.category, r.worst_product.name))
            /\ \A P \in ProductsIn(r.category) :
                  ~MeanLess(MeanRating(r.category, P), r.worst_product.rating)
            /\ \A i \in DOMAIN r.top_products :
                  ~MeanLess(r.top_products[i].rating, r.worst_product.rating)

\* a category whose worst product is strictly below another product
C2_Witness ==
    \E r \in Reports :
        /\ Cardinality(ProductsIn(r.category)) > 1
        /\ ~r.worst_product.none
        /\ MeanLess(r.worst_product.rating, r.top_products[1].rating)

\* positions of the rows of category C and product P that carry the label
\* and a summary
ExcerptRowsOf(C, P, label) ==
    {i \in RowsOfProduct(C, P) :
        df[i]["rating_sentiment"] = label /\ df[i]["chatgpt_summary"] # NaN}

\* the first five (or all) of those summaries, in table order
FirstExcerpts(C, P, label) ==
    LET S == ExcerptRowsOf(C, P, label)
    IN  [k \in 1..Min(5, Cardinality(S)) |->
            df[CHOOSE x \in S : Cardinality({y \in S : y < x}) = k - 1]
                ["chatgpt_summary"]]

\* C3: the excerpts of a top product are the first five non-missing
\* summaries, in table order, of its Positive rows in the category; those of
\* the worst product the same of its Negative rows.
C3_Excerpts ==
    \A r \in Reports :
        /\ \A i \in DOMAIN r.top_products :
              r.top_products[i].positive_summaries =
                  FirstExcerpts(r.category, r.top_products[i].name, "Positive")
        /\ ~r.worst_product.none =>
              r.worst_product.improvement_summaries =
                  FirstExcerpts(r.category, r.worst_product.name, "Negative")

\* a top product with more than five Positive summaries, cut to five
C3_Witness ==
    \E r \in Reports : \E i \in DOMAIN r.top_products :
        /\ Cardinality(ExcerptRowsOf(r.category, r.top_products[i].name,
                                     "Positive")) > 5
        /\ Len(r.top_products[i].positive_summaries) = 5

RECURSIVE SumCounts(_)
\* the sum of the counts of a distribution
SumCounts(f) ==
    IF DOMAIN f = {} THEN 0
    ELSE LET k == CHOOSE x \in DOMAIN f : TRUE
         IN  f[k] + SumCounts([x \in DOMAIN f \ {k} |-> f[x]])

RECURSIVE SumBars(_)
SumBars(bars) == IF bars = <<>> THEN 0 ELSE SumBars(Front(bars)) + Last(bars)[2]

KeysAscending(bars) ==
    \A i \in DOMAIN bars : \A j \in DOMAIN bars : i < j => bars[i][1] < bars[j][1]

\* the rows of category C that carry a sentiment label
LabelledRowsIn(C) == {i \in RowsIn(C) : df[i]["rating_sentiment"] # NaN}

C5_Original ==
    \A r \in Reports :
        /\ r.review_count = Cardinality(RowsIn(r.category))
        /\ r.product_count = Cardinality(ProductsIn(r.category))

\* C6: with a required column missing, main reports the missing columns and
\* returns: nothing is created or written, no category is analysed, and the
\* run never leaves main.
C6_MissingColumns ==
    columns # Range(required_columns) =>
        /\ pc \in {"main", "done"}
        /\ created = {} /\ written = {}
        /\ fs \subseteq {output_dir}
        /\ calls = 0 /\ category_data = <<>>
        /\ cards = <<>> /\ details = <<>> /\ ~loaded
        /\ pc = "done" =>
              /\ stdout = <<"error">>
              /\ Range(missing_columns) = Range(required_columns) \ columns
              /\ missing_columns # <<>>

\* main returned on a table that lacks exactly one column
C6_Witness ==
    /\ pc = "done"
    /\ Cardinality(columns) = Len(required_columns) - 1
    /\ stdout = <<"error">>

\* the category of the analyze_category_data call that returned data
analyzed == categories[next_category - 1]

\* C7: the call returns None exactly when no row has the category; the
\* rendered list holds the categories with rows, each once, and no other:
\* no card and no section for a missing category, review_count >= 1.
C7_NoData ==
    /\ calls > 0 => (data.none <=> RowsIn(analyzed) = {})
    /\ \A k \in DOMAIN category_data :
          /\ ~category_data[k].none
          /\ RowsIn(category_data[k].category) # {}
          /\ category_data[k].review_count >= 1
    /\ index_html \in written =>
          /\ Len(cards) = Len(details)
          /\ {cards[i].category : i \in DOMAIN cards} =
                {c \in Range(categories) : RowsIn(c) # {}}
          /\ Len(cards) = Cardinality({c \in Range(categories) : RowsIn(c) # {}})
          /\ \A i \in DOMAIN cards :
                /\ cards[i].category # NaN
                /\ details[i].category = cards[i].category
                /\ cards[i].review_count >= 1

\* a table with a missing category value and a category that is rendered
C7_Witness ==
    /\ index_html \in written
    /\ NaN \in Range(categories)
    /\ cards # <<>>
    /\ Len(cards) < Len(categories)

GroupPosition(P) == CHOOSE i \in DOMAIN NameOrder : NameOrder[i] = P

\* C9 as claimed: products of equal mean keep their grouping order in
\* top_products, and the worst product is the first in grouping order among
\* the products of minimum mean.
C9_Original ==
    \A r \in Reports :
        /\ \A i \in DOMAIN r.top_products : \A j \in DOMAIN r.top_products :
              (i < j /\ MeanEq(r.top_products[i].rating, r.top_products[j].rating))
                  => GroupPosition(r.top_products[i].name)
                        < GroupPosition(r.top_products[j].name)
        /\ \A P \in ProductsIn(r.category) \ TopNames(r) :
              \A i \in DOMAIN r.top_products :
                  MeanEq(r.top_products[i].rating, MeanRating(r.category, P))
                      => GroupPosition(r.top_products[i].name) < GroupPosition(P)
        /\ ~r.worst_product.none =>
              \A P \in ProductsIn(r.category) :
                  MeanEq(r.worst_product.rating, MeanRating(r.category, P))
                      => GroupPosition(r.worst_product.name) <= GroupPosition(P)

GridShown ==
    /\ grid_display = "grid"
    /\ \A j \in DOMAIN detail_display : detail_display[j] = "none"

OneDetailShown ==
    /\ grid_display = "none"
    /\ \E j \in DOMAIN detail_display :
          /\ detail_display[j] = "block"
          /\ details[j].id = last_card
          /\ \A k \in DOMAIN detail_display \ {j} : detail_display[k] = "none"

\* C10: the loaded page shows either the grid and no section, or no grid and
\* exactly the section of the card clicked last; a click that brings the
\* grid back hides every section; card i and section detail-i carry index i
\* and the same category.
C10_Page ==
    [][/\ loaded' => (GridShown' \/ OneDetailShown')
       /\ index_html \in written' =>
             /\ DOMAIN cards' = DOMAIN details'
             /\ \A i \in DOMAIN cards' :
                   /\ cards'[i].data_category = i
                   /\ details'[i].id = i
                   /\ cards'[i].category = details'[i].category
       /\ (loaded /\ grid_display = "none" /\ grid_display' = "grid")
             => GridShown'
       /\ (loaded /\ GridShown /\ grid_display' = "none")
             => (OneDetailShown' /\ last_card' \in DOMAIN details')]_vars

\* the second card's section is the one shown
C10_Witness ==
    /\ loaded
    /\ Len(cards) > 1
    /\ last_card = 2
    /\ detail_display[2] = "block"
    /\ detail_display[1] = "none"
    /\ grid_display = "none"

\* C11: in a category of one to three products the worst product is also
\* an entry of top_products, with the same mean; with exactly one product
\* that product is the first top product and the worst product.
C11_WorstAmongTop ==
    \A r \in Reports :
        LET n == Cardinality(ProductsIn(r.category))
        IN  /\ (1 <= n /\ n <= 3) =>
                  /\ ~r.worst_product.none
                  /\ \E i \in DOMAIN r.top_products :
                        /\ r.top_products[i].name = r.worst_product.name
                        /\ MeanEq(r.top_products[i].rating, r.worst_product.rating)
            /\ n = 1 =>
                  /\ Len(r.top_products) = 1
                  /\ r.top_products[1].name = r.worst_product.name
                  /\ ProductsIn(r.category) = {r.worst_product.name}

\* three products of which the last top product, strictly below the first,
\* is the worst product
C11_Witness ==
    \E r \in Reports :
        /\ Cardinality(ProductsIn(r.category)) = 3
        /\ ~r.worst_product.none
        /\ r.top_products[3].name = r.worst_product.name
        /\ MeanLess(r.top_products[3].rating, r.top_products[1].rating)

====
